---- MODULE Spec2Model ----
(***************************************************************************)
(* Model of the argument analyzer's provider dispatch and response         *)
(* normalisation (server/aiService.ts) and of the client call that feeds   *)
(* it (client/src/lib/api.ts).                                             *)
(*                                                                         *)
(* A text is a sequence of lexical symbols; every symbol is a TLA+ string. *)
(* Punctuation symbols are "{" "}" "[" "]" ":" "," and Quote, a numeric    *)
(* literal is one symbol of NumLex, the literals null/true/false are one   *)
(* symbol each, and any other symbol is a run of letters.  White space     *)
(* carries no meaning for JSON.parse nor for the brace pattern and is not  *)
(* represented.                                                            *)
(***************************************************************************)
EXTENDS Integers, Sequences, FiniteSets, TLC

(***************************************************************************)
(* Bounds of the model.                                                    *)
(***************************************************************************)
MaxPremises == 2

(***************************************************************************)
(* JavaScript values.  A string is the sequence of the symbols between its *)
(* quotes, a number is its integer part and its first decimal, an object   *)
(* is a function from keys (strings) to values.                            *)
(***************************************************************************)
Quote == "\""
EscQuote == "\\\""

Undef == [t |-> "undefined"]
Null == [t |-> "null"]
Bool(b) == [t |-> "bool", b |-> b]
Num(i, f) == [t |-> "num", i |-> i, f |-> f]
Str(s) == [t |-> "str", s |-> s]
Arr(a) == [t |-> "arr", a |-> a]
Obj(o) == [t |-> "obj", o |-> o]

K(name) == <<name>>
S(name) == Str(<<name>>)
Whole(i) == Num(i, 0)

NumLex == {"0", "1", "2", "3", "4", "5", "6", "2.5"}

NumVal(lex) ==
  CASE lex = "0" -> Whole(0)
    [] lex = "1" -> Whole(1)
    [] lex = "2" -> Whole(2)
    [] lex = "3" -> Whole(3)
    [] lex = "4" -> Whole(4)
    [] lex = "5" -> Whole(5)
    [] lex = "6" -> Whole(6)
    [] lex = "2.5" -> Num(2, 5)

Min(set) == CHOOSE m \in set : \A n \in set : m <= n

(***************************************************************************)
(* JSON.parse: a recursive-descent parser over the symbols of the text.    *)
(* A parse step yields [ok, v, rest]; the text is JSON iff the step        *)
(* succeeds and nothing is left.  A repeated key keeps its last value.     *)
(***************************************************************************)
ParseFail == [ok |-> FALSE, v |-> Undef, rest |-> <<>>]
ParseOk(v, rest) == [ok |-> TRUE, v |-> v, rest |-> rest]
From(s, i) == SubSeq(s, i, Len(s))

Unescape(s) == [i \in 1..Len(s) |-> IF s[i] = EscQuote THEN Quote ELSE s[i]]

ScanString(s) ==
  LET closing == {i \in 1..Len(s) : s[i] = Quote}
  IN  IF closing = {} THEN ParseFail
      ELSE LET i == Min(closing)
           IN  ParseOk(Str(Unescape(SubSeq(s, 1, i - 1))), From(s, i + 1))

RECURSIVE ParseValue(_)
RECURSIVE ParseElements(_, _)
RECURSIVE ParseMembers(_, _)

ParseValue(s) ==
  IF s = <<>> THEN ParseFail
  ELSE CASE s[1] = "{" ->
              IF Len(s) >= 2 /\ s[2] = "}" THEN ParseOk(Obj(<<>>), From(s, 3))
              ELSE ParseMembers(Tail(s), <<>>)
         [] s[1] = "[" ->
              IF Len(s) >= 2 /\ s[2] = "]" THEN ParseOk(Arr(<<>>), From(s, 3))
              ELSE ParseElements(Tail(s), <<>>)
         [] s[1] = Quote -> ScanString(Tail(s))
         [] s[1] = "null" -> ParseOk(Null, Tail(s))
         [] s[1] = "true" -> ParseOk(Bool(TRUE), Tail(s))
         [] s[1] = "false" -> ParseOk(Bool(FALSE), Tail(s))
         [] s[1] \in NumLex -> ParseOk(NumVal(s[1]), Tail(s))
         [] OTHER -> ParseFail

ParseElements(s, acc) ==
  LET e == ParseValue(s)
  IN  IF ~e.ok \/ e.rest = <<>> THEN ParseFail
      ELSE CASE e.rest[1] = "," -> ParseElements(Tail(e.rest), Append(acc, e.v))
             [] e.rest[1] = "]" -> ParseOk(Arr(Append(acc, e.v)), Tail(e.rest))
             [] OTHER -> ParseFail

ParseMembers(s, acc) ==
  IF s = <<>> \/ s[1] # Quote THEN ParseFail
  ELSE LET k == ScanString(Tail(s))
       IN  IF ~k.ok \/ k.rest = <<>> \/ k.rest[1] # ":" THEN ParseFail
           ELSE LET m == ParseValue(Tail(k.rest))
                    o == (k.v.s :> m.v) @@ acc
                IN  IF ~m.ok \/ m.rest = <<>> THEN ParseFail
                    ELSE CASE m.rest[1] = "," -> ParseMembers(Tail(m.rest), o)
                           [] m.rest[1] = "}" -> ParseOk(Obj(o), Tail(m.rest))
                           [] OTHER -> ParseFail

JSONparse(text) ==
  LET r == ParseValue(text)
  IN  IF r.ok /\ r.rest = <<>> THEN [ok |-> TRUE, v |-> r.v]
      ELSE [ok |-> FALSE, v |-> Undef]

(***************************************************************************)
(* JSON.stringify, used to write the replies of the providers.  Members    *)
(* are written in the order of KeyOrder.  A quote inside a string is       *)
(* written as the escaped quote; no string of the model holds an escaped   *)
(* quote of its own, so one level of escaping suffices.                    *)
(***************************************************************************)
KeyOrder ==
  << K("claim"), K("premises"), K("emotions"), K("Anger"), K("Sadness"),
     K("Joy"), K("Fear"), K("Surprise"), K("Disgust"), K("note"),
     K("choices"), K("message"), K("content"), K("candidates"), K("parts"),
     K("text"), K("error") >>

Escape(s) == [i \in 1..Len(s) |-> IF s[i] = Quote THEN EscQuote ELSE s[i]]

RECURSIVE Stringify(_)
RECURSIVE StringifyList(_, _)
RECURSIVE StringifyMembers(_, _, _)

Stringify(v) ==
  CASE v.t = "null" -> <<"null">>
    [] v.t = "bool" -> IF v.b THEN <<"true">> ELSE <<"false">>
    [] v.t = "num" -> << CHOOSE lex \in NumLex : NumVal(lex) = v >>
    [] v.t = "str" -> <<Quote>> \o Escape(v.s) \o <<Quote>>
    [] v.t = "arr" -> <<"[">> \o StringifyList(v.a, 1) \o <<"]">>
    [] v.t = "obj" -> <<"{">> \o StringifyMembers(v.o, 1, TRUE) \o <<"}">>

StringifyList(a, i) ==
  IF i > Len(a) THEN <<>>
  ELSE (IF i > 1 THEN <<",">> ELSE <<>>) \o Stringify(a[i])
         \o StringifyList(a, i + 1)

StringifyMembers(o, i, first) ==
  IF i > Len(KeyOrder) THEN <<>>
  ELSE IF KeyOrder[i] \notin DOMAIN o THEN StringifyMembers(o, i + 1, first)
  ELSE (IF first THEN <<>> ELSE <<",">>)
         \o <<Quote>> \o KeyOrder[i] \o <<Quote, ":">> \o Stringify(o[KeyOrder[i]])
         \o StringifyMembers(o, i + 1, FALSE)

(***************************************************************************)
(* aiResponseSchema: z.object strips the keys it does not know, at both    *)
(* levels, and rejects a missing key or a value of the wrong type.         *)
(***************************************************************************)
EmotionKeys == {"Anger", "Sadness", "Joy", "Fear", "Surprise"}
MinScore == 1
MaxScore == 5

zString(v) == v.t = "str"

\* The lower bound off by one.
zScore_MinZero(v) ==
  /\ v.t = "num"
  /\ v.i >= MinScore - 1
  /\ (v.i < MaxScore \/ (v.i = MaxScore /\ v.f = 0))

zScore(v) ==
  /\ v.t = "num"
  /\ v.i >= MinScore
  /\ (v.i < MaxScore \/ (v.i = MaxScore /\ v.f = 0))

zHas(v, name) == v.t = "obj" /\ K(name) \in DOMAIN v.o

\* The schema with one emotion key forgotten.
zEmotions_KeyForgotten(v) ==
  /\ v.t = "obj"
  /\ \A e \in EmotionKeys \ {"Surprise"} : zHas(v, e) /\ zScore(v.o[K(e)])

zEmotions(v) ==
  /\ v.t = "obj"
  /\ \A e \in EmotionKeys : zHas(v, e) /\ zScore(v.o[K(e)])

zPremises(v) == v.t = "arr" /\ \A i \in 1..Len(v.a) : zString(v.a[i])

aiResponseSchemaAccepts(v) ==
  /\ zHas(v, "claim") /\ zString(v.o[K("claim")])
  /\ zHas(v, "premises") /\ zPremises(v.o[K("premises")])
  /\ zHas(v, "emotions") /\ zEmotions(v.o[K("emotions")])

\* The schema without its premises key: the key is stripped from the result.
aiResponseSchemaOutput_PremisesForgotten(v) ==
  Obj([k \in {K("claim"), K("emotions")} \cap DOMAIN v.o |->
         IF k = K("emotions") /\ v.o[k].t = "obj"
         THEN Obj([e \in {K(n) : n \in EmotionKeys} \cap DOMAIN v.o[k].o |-> v.o[k].o[e]])
         ELSE v.o[k]])

aiResponseSchemaOutput(v) ==
  Obj([k \in {K("claim"), K("premises"), K("emotions")} \cap DOMAIN v.o |->
         IF k = K("emotions") /\ v.o[k].t = "obj"
         THEN Obj([e \in {K(n) : n \in EmotionKeys} \cap DOMAIN v.o[k].o |-> v.o[k].o[e]])
         ELSE v.o[k]])

aiResponseSchemaParse(v) ==
  IF aiResponseSchemaAccepts(v)
  THEN [ok |-> TRUE, v |-> aiResponseSchemaOutput(v)]
  ELSE [ok |-> FALSE, v |-> Undef]


(***************************************************************************)
(* JavaScript semantics used by the handlers: truthiness, member access    *)
(* with and without optional chaining, String(v) as JSON.parse applies it  *)
(* to an argument that is not a string.                                    *)
(***************************************************************************)
Nullish(v) == v.t \in {"undefined", "null"}

Truthy(v) ==
  CASE v.t \in {"undefined", "null"} -> FALSE
    [] v.t = "bool" -> v.b
    [] v.t = "num" -> ~(v.i = 0 /\ v.f = 0)
    [] v.t = "str" -> v.s # <<>>
    [] OTHER -> TRUE

Prop(name, opt) == [k |-> "prop", name |-> name, opt |-> opt]
First(opt) == [k |-> "index", name |-> "0", opt |-> opt]

Member(v, step) ==
  CASE step.k = "prop" /\ v.t = "obj" /\ K(step.name) \in DOMAIN v.o -> v.o[K(step.name)]
    [] step.k = "index" /\ v.t = "arr" /\ Len(v.a) >= 1 -> v.a[1]
    [] OTHER -> Undef

RECURSIVE Access(_, _)
Access(v, path) ==
  IF path = <<>> THEN [threw |-> FALSE, v |-> v]
  ELSE IF Nullish(v)
       THEN IF path[1].opt THEN [threw |-> FALSE, v |-> Undef]
            ELSE [threw |-> TRUE, v |-> Undef]
       ELSE Access(Member(v, path[1]), Tail(path))

RECURSIVE ToStringJS(_)
RECURSIVE JoinJS(_, _)
ToStringJS(v) ==
  CASE v.t = "str" -> v.s
    [] v.t = "undefined" -> <<"undefined">>
    [] v.t = "obj" -> <<"[", "object", "Object", "]">>
    [] v.t = "arr" -> JoinJS(v.a, 1)
    [] OTHER -> Stringify(v)

JoinJS(a, i) ==
  IF i > Len(a) THEN <<>>
  ELSE (IF i > 1 THEN <<",">> ELSE <<>>)
         \o (IF Nullish(a[i]) THEN <<>> ELSE ToStringJS(a[i]))
         \o JoinJS(a, i + 1)

(***************************************************************************)
(* content.match(/\{[\s\S]*\}/): the span from the first "{" to the last   *)
(* "}" after it, braces inside string literals included.                   *)
(***************************************************************************)
Max(set) == CHOOSE m \in set : \A n \in set : m >= n

\* The pattern made lazy: the span ends at the first "}".
jsonMatch_Lazy(content) ==
  LET opens == {i \in 1..Len(content) : content[i] = "{"}
  IN  IF opens = {} THEN [found |-> FALSE, span |-> <<>>]
      ELSE LET closes == {j \in Min(opens)..Len(content) : content[j] = "}"}
           IN  IF closes = {} THEN [found |-> FALSE, span |-> <<>>]
               ELSE [found |-> TRUE,
                     span |-> SubSeq(content, Min(opens), Min(closes))]

\* The pattern replaced by a test for any brace.
jsonMatch_AnyBrace(content) ==
  LET braces == {i \in 1..Len(content) : content[i] \in {"{", "}"}}
  IN  IF braces = {} THEN [found |-> FALSE, span |-> <<>>]
      ELSE [found |-> TRUE, span |-> SubSeq(content, Min(braces), Max(braces))]

jsonMatch(content) ==
  LET opens == {i \in 1..Len(content) : content[i] = "{"}
  IN  IF opens = {} THEN [found |-> FALSE, span |-> <<>>]
      ELSE LET closes == {j \in Min(opens)..Len(content) : content[j] = "}"}
           IN  IF closes = {} THEN [found |-> FALSE, span |-> <<>>]
               ELSE [found |-> TRUE,
                     span |-> SubSeq(content, Min(opens), Max(closes))]

(***************************************************************************)
(* Providers, their names in the messages, and the outcome of a call: a    *)
(* returned value or a thrown error [kind, who, text].                     *)
(***************************************************************************)
Providers == {"openai", "deepseek", "gemini"}

Who(p) ==
  CASE p = "openai" -> "OpenAI"
    [] p = "deepseek" -> "DeepSeek"
    [] p = "gemini" -> "Gemini"

Credential(p) ==
  CASE p = "openai" -> "OPENAI_API_KEY"
    [] p = "deepseek" -> "DEEPSEEK_API_KEY"
    [] p = "gemini" -> "GEMINI_API_KEY"

MissingKey == <<"API", "key", "is", "missing">>

NoError == [kind |-> "none", who |-> "", text |-> <<>>]
Error(kind, who, text) == [kind |-> kind, who |-> who, text |-> text]
Returned(v) == [error |-> NoError, v |-> v]
Thrown(kind, who, text) == [error |-> Error(kind, who, text), v |-> Undef]

(***************************************************************************)
(* The tail of each handler, from the completion to the validated result,  *)
(* with the catch block that renames ZodError and SyntaxError and rethrows *)
(* every other error.                                                      *)
(***************************************************************************)
ParseAndValidate(p, text) ==
  LET parsedData == JSONparse(text)
  IN  IF ~parsedData.ok THEN Thrown("ParseError", Who(p), <<>>)
      ELSE LET z == aiResponseSchemaParse(parsedData.v)
           IN  IF ~z.ok THEN Thrown("SchemaError", Who(p), <<>>)
               ELSE Returned(z.v)

ChatPath(firstOpt) ==
  << Prop("choices", FALSE), First(firstOpt), Prop("message", firstOpt),
     Prop("content", firstOpt) >>

GeminiPath ==
  << Prop("candidates", FALSE), First(TRUE), Prop("content", TRUE),
     Prop("parts", TRUE), First(TRUE), Prop("text", TRUE) >>

NormalizeChat(p, envelope, firstOpt) ==
  LET content == Access(envelope, ChatPath(firstOpt))
  IN  IF content.threw THEN Thrown("TypeError", "", <<>>)
      ELSE IF ~Truthy(content.v) THEN Thrown("EmptyContentError", Who(p), <<>>)
      ELSE ParseAndValidate(p, ToStringJS(content.v))

NormalizeOpenAI(response) == NormalizeChat("openai", response, FALSE)

NormalizeDeepseek(responseData) == NormalizeChat("deepseek", responseData, TRUE)

NormalizeGemini(responseData) ==
  LET content == Access(responseData, GeminiPath)
  IN  IF content.threw THEN Thrown("TypeError", "", <<>>)
      ELSE IF ~Truthy(content.v) THEN Thrown("EmptyContentError", "Gemini", <<>>)
      ELSE IF content.v.t # "str" THEN Thrown("TypeError", "", <<>>)
      ELSE LET m == jsonMatch(content.v.s)
           IN  IF ~m.found THEN Thrown("ExtractionError", "Gemini", <<>>)
               ELSE ParseAndValidate("gemini", m.span)

(***************************************************************************)
(* The stages a handler's tail enters on the way to its result: the        *)
(* completion found, the brace span isolated (Gemini only: the other two   *)
(* handlers hand the completion to JSON.parse as it is), the text parsed,  *)
(* the parsed value validated.                                             *)
(***************************************************************************)
\* The tail entering Validated before the schema has accepted the value.
ParseAndValidateStages_ValidatedEarly(text) ==
  LET parsedData == JSONparse(text)
  IN  IF ~parsedData.ok THEN <<>>
      ELSE <<"Parsed", "Validated">>

ParseAndValidateStages(text) ==
  LET parsedData == JSONparse(text)
  IN  IF ~parsedData.ok THEN <<>>
      ELSE IF ~aiResponseSchemaParse(parsedData.v).ok THEN <<"Parsed">>
      ELSE <<"Parsed", "Validated">>

NormalizeChatStages(envelope, firstOpt) ==
  LET content == Access(envelope, ChatPath(firstOpt))
  IN  IF content.threw \/ ~Truthy(content.v) THEN <<>>
      ELSE <<"ContentExtracted">> \o ParseAndValidateStages(ToStringJS(content.v))

NormalizeOpenAIStages(response) == NormalizeChatStages(response, FALSE)

NormalizeDeepseekStages(responseData) == NormalizeChatStages(responseData, TRUE)

NormalizeGeminiStages(responseData) ==
  LET content == Access(responseData, GeminiPath)
  IN  IF content.threw \/ ~Truthy(content.v) THEN <<>>
      ELSE IF content.v.t # "str" THEN <<"ContentExtracted">>
      ELSE LET m == jsonMatch(content.v.s)
           IN  IF ~m.found THEN <<"ContentExtracted">>
               ELSE <<"ContentExtracted", "JSONIsolated">>
                      \o ParseAndValidateStages(m.span)

(***************************************************************************)
(* The error branch of the fetch handlers:                                 *)
(*   errorData.error?.message || response.statusText                       *)
(***************************************************************************)
ApiError(p, body, statusText) ==
  LET errorData == JSONparse(body)
  IN  IF ~errorData.ok THEN Thrown("ParseError", Who(p), <<>>)
      ELSE LET m == Access(errorData.v, << Prop("error", FALSE), Prop("message", TRUE) >>)
           IN  IF m.threw THEN Thrown("TypeError", "", <<>>)
               ELSE Thrown("TransportError", Who(p),
                           IF Truthy(m.v) THEN ToStringJS(m.v) ELSE statusText)

(***************************************************************************)
(* The replies of the providers.  A canonical object has a claim, up to    *)
(* MaxPremises premises and the five scores; a completion is a canonical   *)
(* object written as JSON, bare or inside prose, or one of the defective   *)
(* texts below.                                                            *)
(***************************************************************************)
EmptyObj == Obj(<<>>)
EmptyArr == Arr(<<>>)

Fields(claim, premises, emotions) ==
  (K("claim") :> claim) @@ (K("premises") :> premises) @@ (K("emotions") :> emotions)

Scores(a, s, j, f, u) ==
  (K("Anger") :> a) @@ (K("Sadness") :> s) @@ (K("Joy") :> j)
    @@ (K("Fear") :> f) @@ (K("Surprise") :> u)

PremisesOf(n) == Arr([i \in 1..n |-> Str([j \in 1..i |-> "because"])])

ClaimTexts == { <<"The", "ocean", "is", "blue">>, <<"set", "{", "x", "}", "holds">> }

ScoreVectors ==
  { Scores(Whole(1), Whole(1), Whole(2), Whole(1), Whole(1)),
    Scores(Whole(1), Whole(2), Whole(3), Whole(4), Whole(5)),
    Scores(Whole(5), Whole(5), Whole(5), Whole(5), Whole(5)) }

Canonicals ==
  { Obj(Fields(Str(c), PremisesOf(n), Obj(sc))) :
      c \in ClaimTexts, n \in 0..MaxPremises, sc \in ScoreVectors }

Base ==
  Fields(S("ocean"), PremisesOf(1),
         Obj(Scores(Whole(1), Whole(1), Whole(2), Whole(1), Whole(1))))

WithScore(e, v) == Obj((K("emotions") :> Obj((K(e) :> v) @@ Base[K("emotions")].o)) @@ Base)

Without(o, key) == [k \in DOMAIN o \ {key} |-> o[k]]

BadScores == { Whole(0), Whole(6), S("high"), Null, Bool(TRUE), EmptyObj }

BadScoreObjects == { WithScore(e, v) : e \in EmotionKeys, v \in BadScores }

MissingKeyObjects ==
  { Obj((K("emotions") :> Obj(Without(Base[K("emotions")].o, K(e)))) @@ Base) :
      e \in EmotionKeys }

ExtraKeyObjects ==
  { WithScore("Disgust", Whole(3)),
    WithScore("Disgust", S("high")),
    Obj((K("note") :> S("extra")) @@ Base) }

MissingAndExtraObjects ==
  { Obj((K("emotions") :>
           Obj((K("Disgust") :> Whole(3)) @@ Without(Base[K("emotions")].o, K(e))))
        @@ Base) : e \in {"Joy"} }

FractionObjects == { WithScore(e, Num(2, 5)) : e \in {"Anger", "Surprise"} }

OtherBadObjects ==
  { Obj((K("claim") :> Whole(3)) @@ Base),
    Obj(Without(Base, K("claim"))),
    Obj((K("premises") :> S("sky")) @@ Base),
    Obj((K("premises") :> Arr(<<S("sky"), Whole(2)>>)) @@ Base),
    Obj((K("emotions") :> Null) @@ Base),
    Obj((K("emotions") :> EmptyArr) @@ Base),
    EmptyObj }

Prefixes ==
  { <<>>, <<"Here", "is", "the", "analysis", ":">>, <<"~~~json">>,
    <<"Format", "{", "claim", "}", ":">>, <<"1", "}", "Result", ":">> }

Suffixes ==
  { <<>>, <<"~~~">>, <<"where", "{", "x", "}", "is", "a", "set">>,
    <<"{", "end">> }

WrappedCompletions ==
  { pre \o Stringify(c) \o post : pre \in Prefixes, post \in Suffixes, c \in Canonicals }

TrailingComma(text) == SubSeq(text, 1, Len(text) - 1) \o <<",", "}">>

DefectiveTexts ==
  { <<"I", "cannot", "analyse", "this">>,
    <<"5">>, <<"null">>, <<"true">>, <<"[", "]">>, <<Quote, "fine", Quote>>,
    <<"}", "then", "{">>, <<"{", "claim">>, <<"{", "}">>,
    <<Quote, "set", "{", "x", "}", Quote>>,
    TrailingComma(Stringify(Obj(Base))),
    <<"Result", ":">> \o TrailingComma(Stringify(Obj(Base))) }

ObjectCompletions ==
  { Stringify(o) : o \in BadScoreObjects \cup MissingKeyObjects \cup ExtraKeyObjects
                          \cup MissingAndExtraObjects \cup FractionObjects
                          \cup OtherBadObjects }

Completions == WrappedCompletions \cup ObjectCompletions \cup DefectiveTexts

ChatEnvelope(content) ==
  Obj(K("choices") :> Arr(<<Obj(K("message") :> Obj(K("content") :> content))>>))

GeminiEnvelope(text) ==
  Obj(K("candidates") :>
        Arr(<<Obj(K("content") :> Obj(K("parts") :> Arr(<<Obj(K("text") :> text)>>)))>>))

EmptyChatEnvelopes ==
  { EmptyObj,
    Obj(K("choices") :> EmptyArr),
    Obj(K("choices") :> Arr(<<EmptyObj>>)),
    Obj(K("choices") :> Arr(<<Obj(K("message") :> EmptyObj)>>)),
    ChatEnvelope(Null),
    ChatEnvelope(Str(<<>>)) }

EmptyGeminiEnvelopes ==
  { EmptyObj,
    Obj(K("candidates") :> EmptyArr),
    Obj(K("candidates") :> Arr(<<EmptyObj>>)),
    Obj(K("candidates") :> Arr(<<Obj(K("content") :> EmptyObj)>>)),
    Obj(K("candidates") :> Arr(<<Obj(K("content") :> Obj(K("parts") :> EmptyArr))>>)),
    Obj(K("candidates") :> Arr(<<Obj(K("content") :> Obj(K("parts") :> Arr(<<EmptyObj>>)))>>)),
    GeminiEnvelope(Null),
    GeminiEnvelope(Str(<<>>)) }

OddEnvelopes == { Null, ChatEnvelope(Whole(5)), GeminiEnvelope(Whole(5)) }

EnvelopeOf(p, text) ==
  IF p = "gemini" THEN GeminiEnvelope(Str(text)) ELSE ChatEnvelope(Str(text))

EmptyEnvelopes(p) == IF p = "gemini" THEN EmptyGeminiEnvelopes ELSE EmptyChatEnvelopes

HtmlBody == <<"<html>", "Bad", "Gateway", "</html>">>

ProviderMessage == <<"quota", "exceeded">>

ErrorBodies ==
  { Stringify(Obj(K("error") :> Obj(K("message") :> Str(ProviderMessage)))),
    Stringify(Obj(K("error") :> Obj(K("message") :> Str(<<>>)))),
    Stringify(Obj(K("error") :> EmptyObj)),
    Stringify(Obj(K("error") :> Str(ProviderMessage))),
    Stringify(EmptyObj),
    <<"null">>,
    HtmlBody }

StatusTexts == { <<"Bad", "Gateway">>, <<"Too", "Many", "Requests">> }

HttpReply(ok, statusText, body) ==
  [net |-> TRUE, ok |-> ok, statusText |-> statusText, body |-> body]

NetworkFailure == [net |-> FALSE, ok |-> FALSE, statusText |-> <<>>, body |-> <<>>]

Replies(p) ==
  { HttpReply(TRUE, <<"OK">>, Stringify(EnvelopeOf(p, c))) : c \in Completions }
    \cup { HttpReply(TRUE, <<"OK">>, Stringify(e)) : e \in EmptyEnvelopes(p) \cup OddEnvelopes }
    \cup { HttpReply(TRUE, <<"OK">>, HtmlBody) }
    \cup { HttpReply(FALSE, st, b) : st \in StatusTexts, b \in ErrorBodies }
    \cup { NetworkFailure }

(***************************************************************************)
(* What the OpenAI client library hands back to the handler: the parsed    *)
(* body of a successful reply, or a thrown API error whose message holds   *)
(* the status and, when the body carries one, the provider's message.      *)
(***************************************************************************)
OpenAIClientError(r) ==
  LET e == JSONparse(r.body)
      m == IF e.ok
           THEN Access(e.v, << Prop("error", TRUE), Prop("message", TRUE) >>).v
           ELSE Undef
  IN  Thrown("TransportError", "OpenAI",
             r.statusText \o (IF m.t = "str" THEN m.s ELSE <<>>))

(***************************************************************************)
(* State.                                                                  *)
(***************************************************************************)
VARIABLES
  env,          \* names of the credentials set in process.env
  cpc,          \* position of the client's analyzeArgument
  args,         \* its arguments [text, model, openRouterModel]
  request,      \* the payload posted to /api/analyze, or NoRequest
  apiResponse,  \* the answer of /api/analyze, or NoResponse
  received,     \* the Response apiRequest resolved with, or NoResponse
  history,      \* the client's history store
  clientResult, \* what analyzeArgument returned or threw
  pc,           \* position of the server's handler
  model,        \* the model analyzeArgumentWithAI was called with
  dispatched,   \* number of calls of analyzeArgumentWithAI
  calls,        \* outbound calls issued to providers, in order
  response,     \* the provider's HTTP response held by the handler
  outcome,      \* what analyzeArgumentWithAI returned or threw
  trace         \* the stages the call has entered, in order

vars ==
  << env, cpc, args, request, apiResponse, received, history, clientResult,
     pc, model, dispatched, calls, response, outcome, trace >>

clientVars == << cpc, args, request, apiResponse, received, history, clientResult >>
serverVars == << pc, model, dispatched, calls, response, outcome, trace >>

NoRequest == [text |-> "", model |-> "", openRouterModel |-> ""]
NoResponse == [net |-> FALSE, ok |-> FALSE, statusText |-> <<>>, body |-> <<>>]
NoOutcome == [error |-> NoError, v |-> Undef]
NoArgs == [text |-> "", model |-> "", openRouterModel |-> ""]

Texts == { "The sky is blue. Therefore, the ocean is blue." }
Models == { "openai", "deepseek", "gemini", "openrouter", "claude" }
OpenRouterModels == { "", "mistral-7b" }

Init ==
  /\ env \in SUBSET { Credential(p) : p \in Providers }
  /\ cpc = "idle"
  /\ args = NoArgs
  /\ request = NoRequest
  /\ apiResponse = NoResponse
  /\ received = NoResponse
  /\ history = <<>>
  /\ clientResult = NoOutcome
  /\ pc = "idle"
  /\ model = ""
  /\ dispatched = 0
  /\ calls = <<>>
  /\ response = NoResponse
  /\ outcome = NoOutcome
  /\ trace = <<"Idle">>

(***************************************************************************)
(* Server: the handlers of aiService.ts.  A handler runs from one await to *)
(* the next in one step.                                                   *)
(***************************************************************************)
Enter(stages) == trace' = trace \o stages

Ending(o) == IF o.error = NoError THEN <<>> ELSE <<"Failed">>

Finish(o) ==
  /\ outcome' = o
  /\ pc' = "done"

HasKey(p) == Credential(p) \in env

IssueCall(p, next) ==
  /\ calls' = Append(calls, p)
  /\ pc' = next
  /\ Enter(<<"Dispatched", "AwaitingHTTP">>)
  /\ UNCHANGED outcome

MissingCredential(who) ==
  /\ Finish(Thrown("ConfigurationError", who, MissingKey))
  /\ Enter(<<"Dispatched", "Failed">>)
  /\ UNCHANGED calls

analyzeWithOpenAI ==
  IF ~HasKey("openai")
  THEN MissingCredential("OpenAI")
  ELSE IssueCall("openai", "awaitCreate")

\* The handler with the credential check left out.
analyzeWithDeepseek_NoKeyCheck == IssueCall("deepseek", "awaitFetch")

analyzeWithDeepseek ==
  IF ~HasKey("deepseek")
  THEN MissingCredential("DeepSeek")
  ELSE IssueCall("deepseek", "awaitFetch")

analyzeWithGemini ==
  IF ~HasKey("gemini")
  THEN MissingCredential("Gemini")
  ELSE IssueCall("gemini", "awaitFetch")

Unsupported(m) ==
  /\ Finish(Thrown("UnsupportedModel", m, <<>>))
  /\ Enter(<<"Dispatched", "Failed">>)
  /\ UNCHANGED calls

analyzeArgumentWithAI(text, m) ==
  /\ model' = m
  /\ dispatched' = dispatched + 1
  /\ response' = NoResponse
  /\ CASE m = "openai" -> analyzeWithOpenAI
       [] m = "deepseek" -> analyzeWithDeepseek
       [] m = "gemini" -> analyzeWithGemini
       [] OTHER -> Unsupported(m)

\* The client library parses the body itself; a successful reply whose body
\* is not JSON is left out, the library's handling of it not being part of
\* the handler.
OpenAIResolved ==
  /\ pc = "awaitCreate"
  /\ \E r \in Replies("openai") :
       /\ (r.net /\ r.ok) => JSONparse(r.body).ok
       /\ response' = r
       /\ LET o == IF ~r.net THEN Thrown("NetworkError", "", <<>>)
                   ELSE IF ~r.ok THEN OpenAIClientError(r)
                   ELSE NormalizeOpenAI(JSONparse(r.body).v)
              passed == IF r.net /\ r.ok
                        THEN NormalizeOpenAIStages(JSONparse(r.body).v)
                        ELSE <<>>
          IN  Finish(o) /\ Enter(passed \o Ending(o))
  /\ UNCHANGED << env, clientVars, model, dispatched, calls >>

\* The handler retrying once after a network failure or a refused request.
FetchResolved_Retry(p) ==
  /\ pc = "awaitFetch"
  /\ model = p
  /\ \E r \in Replies(p) :
       /\ response' = r
       /\ IF (~r.net \/ ~r.ok) /\ Len(calls) < 2
          THEN /\ calls' = Append(calls, p)
               /\ Enter(<<"AwaitingHTTP">>)
               /\ UNCHANGED << pc, outcome >>
          ELSE /\ UNCHANGED calls
               /\ IF ~r.net
                  THEN Finish(Thrown("NetworkError", "", <<>>)) /\ Enter(<<"Failed">>)
                  ELSE /\ pc' = IF r.ok THEN "awaitBody" ELSE "awaitErrorBody"
                       /\ UNCHANGED << outcome, trace >>
  /\ UNCHANGED << env, clientVars, model, dispatched >>

FetchResolved(p) ==
  /\ pc = "awaitFetch"
  /\ model = p
  /\ \E r \in Replies(p) :
       /\ response' = r
       /\ UNCHANGED calls
       /\ IF ~r.net
          THEN Finish(Thrown("NetworkError", "", <<>>)) /\ Enter(<<"Failed">>)
          ELSE /\ pc' = IF r.ok THEN "awaitBody" ELSE "awaitErrorBody"
               /\ UNCHANGED << outcome, trace >>
  /\ UNCHANGED << env, clientVars, model, dispatched >>

ErrorBodyRead(p) ==
  /\ pc = "awaitErrorBody"
  /\ model = p
  /\ Finish(ApiError(p, response.body, response.statusText))
  /\ Enter(<<"Failed">>)
  /\ UNCHANGED << env, clientVars, model, dispatched, calls, response >>

BodyRead(p) ==
  /\ pc = "awaitBody"
  /\ model = p
  /\ LET responseData == JSONparse(response.body)
         o == IF ~responseData.ok THEN Thrown("ParseError", Who(p), <<>>)
              ELSE IF p = "gemini" THEN NormalizeGemini(responseData.v)
              ELSE NormalizeDeepseek(responseData.v)
         passed == IF ~responseData.ok THEN <<>>
                   ELSE IF p = "gemini" THEN NormalizeGeminiStages(responseData.v)
                   ELSE NormalizeDeepseekStages(responseData.v)
     IN  Finish(o) /\ Enter(passed \o Ending(o))
  /\ UNCHANGED << env, clientVars, model, dispatched, calls, response >>

DeepseekFetchResolved == FetchResolved("deepseek")
DeepseekErrorBody == ErrorBodyRead("deepseek")
DeepseekBody == BodyRead("deepseek")
GeminiFetchResolved == FetchResolved("gemini")
GeminiErrorBody == ErrorBodyRead("gemini")
GeminiBody == BodyRead("gemini")

(***************************************************************************)
(* The route POST /api/analyze: validates the body, calls the dispatcher,  *)
(* and answers with the result or with the error's message.                *)
(***************************************************************************)
\* The validation with the variant left optional.
validateRequest_VariantOptional(body) ==
  /\ body.text # ""
  /\ body.model \in { "openai", "deepseek", "gemini", "openrouter" }

validateRequest(body) ==
  /\ body.text # ""
  /\ body.model \in { "openai", "deepseek", "gemini", "openrouter" }
  /\ body.model = "openrouter" => body.openRouterModel # ""

InvalidRequest == <<"Invalid", "request">>

ErrorResponse(text) == [net |-> TRUE, ok |-> FALSE, statusText |-> <<>>, body |-> text]

\* The variant-selecting provider of the interface: its handler issues its
\* call and, when the call resolves, returns a canonical result or throws.
analyzeWithOpenRouter ==
  /\ pc' = "awaitOpenRouter"
  /\ UNCHANGED << model, dispatched, calls, response, outcome, trace >>

OpenRouterResults ==
  { Returned(Obj(Fields(Str(t), PremisesOf(1), Base[K("emotions")]))) : t \in ClaimTexts }
    \cup { Thrown("TransportError", "OpenRouter", <<>>) }

OpenRouterResolved ==
  /\ pc = "awaitOpenRouter"
  /\ \E o \in OpenRouterResults : Finish(o)
  /\ UNCHANGED << env, clientVars, model, dispatched, calls, response, trace >>

RouteReceive ==
  /\ request # NoRequest
  /\ pc = "idle"
  /\ IF validateRequest(request)
     THEN /\ \/ analyzeArgumentWithAI(request.text, request.model)
             \/ request.model = "openrouter" /\ analyzeWithOpenRouter
          /\ UNCHANGED apiResponse
     ELSE /\ apiResponse' = ErrorResponse(InvalidRequest)
          /\ pc' = "responded"
          /\ UNCHANGED << model, dispatched, calls, response, outcome, trace >>
  /\ UNCHANGED << env, cpc, args, request, received, history, clientResult >>

RouteRespond ==
  /\ pc = "done"
  /\ pc' = "responded"
  /\ apiResponse' =
       IF outcome.error = NoError
       THEN HttpReply(TRUE, <<"OK">>, Stringify(outcome.v))
       ELSE ErrorResponse(<<outcome.error.kind>>)
  /\ UNCHANGED << env, cpc, args, request, received, history, clientResult,
                  model, dispatched, calls, response, outcome, trace >>

(***************************************************************************)
(* Client: analyzeArgument of lib/api.ts.                                  *)
(***************************************************************************)
Payload(text, m, openRouterModel) ==
  [text |-> text, model |-> m,
   openRouterModel |-> IF m = "openrouter" /\ openRouterModel # ""
                       THEN openRouterModel ELSE ""]

\* The label without the variant.
modelToSave_PlainName(m, openRouterModel) == <<m>>

modelToSave(m, openRouterModel) ==
  IF m = "openrouter" /\ openRouterModel # ""
  THEN <<"openrouter", "-", openRouterModel>>
  ELSE <<m>>

saveHistoryItem(text, result, label) ==
  Append(history, [text |-> text, result |-> result, model |-> label])

analyzeArgument(text, m, openRouterModel) ==
  /\ cpc = "idle"
  /\ args' = [text |-> text, model |-> m, openRouterModel |-> openRouterModel]
  /\ request' = Payload(text, m, openRouterModel)
  /\ cpc' = "awaitApi"
  /\ UNCHANGED << env, apiResponse, received, history, clientResult, serverVars >>

\* What the client's fetch resolves with: the route's answer, a failure of
\* the connection, or a page an intermediary serves in the route's place.
Arrivals ==
  { apiResponse, NetworkFailure, HttpReply(TRUE, <<"OK">>, HtmlBody) }

apiRequestResolved ==
  /\ cpc = "awaitApi"
  /\ pc = "responded"
  /\ \E r \in Arrivals :
       /\ received' = r
       /\ IF r.ok
          THEN cpc' = "awaitJson" /\ UNCHANGED clientResult
          ELSE /\ cpc' = "threw"
               /\ clientResult' = Thrown("RequestError", "", r.body)
  /\ UNCHANGED << env, args, request, apiResponse, history, serverVars >>

responseJsonResolved ==
  /\ cpc = "awaitJson"
  /\ LET result == JSONparse(received.body)
     IN  IF result.ok
         THEN /\ history' = saveHistoryItem(args.text, result.v,
                                            modelToSave(args.model, args.openRouterModel))
              /\ clientResult' = Returned(result.v)
              /\ cpc' = "returned"
         ELSE /\ clientResult' = Thrown("ParseError", "", <<>>)
              /\ cpc' = "threw"
              /\ UNCHANGED history
  /\ UNCHANGED << env, args, request, apiResponse, received, serverVars >>

Call == \E text \in Texts, m \in Models, v \in OpenRouterModels : analyzeArgument(text, m, v)

Next ==
  \/ Call
  \/ RouteReceive
  \/ OpenAIResolved
  \/ DeepseekFetchResolved
  \/ DeepseekErrorBody
  \/ DeepseekBody
  \/ GeminiFetchResolved
  \/ GeminiErrorBody
  \/ GeminiBody
  \/ OpenRouterResolved
  \/ RouteRespond
  \/ apiRequestResolved
  \/ responseJsonResolved

Spec == Init /\ [][Next]_vars

TypeOK ==
  /\ pc \in {"idle", "awaitCreate", "awaitFetch", "awaitBody", "awaitErrorBody", "awaitOpenRouter",
           "done", "responded"}
  /\ cpc \in {"idle", "awaitApi", "awaitJson", "returned", "threw"}
  /\ dispatched \in 0..1

(***************************************************************************)
(* State functions the properties are written with.  They read the reply   *)
(* the handler holds and never the handler's own intermediate values.      *)
(***************************************************************************)
Finished == pc \in {"done", "responded"} /\ dispatched = 1

GotReply == Finished /\ response.net

LenientPath(p) ==
  IF p = "gemini"
  THEN << Prop("candidates", TRUE), First(TRUE), Prop("content", TRUE),
          Prop("parts", TRUE), First(TRUE), Prop("text", TRUE) >>
  ELSE << Prop("choices", TRUE), First(TRUE), Prop("message", TRUE),
          Prop("content", TRUE) >>

ReplyContent ==
  IF GotReply /\ response.ok /\ model \in Providers
  THEN LET envelope == JSONparse(response.body)
       IN  IF envelope.ok THEN Access(envelope.v, LenientPath(model)).v ELSE Undef
  ELSE Undef

\* The completion text of the reply; empty when the reply has none.
Completion ==
  LET content == ReplyContent
  IN  IF content.t = "str" THEN content.s ELSE <<>>

HasCompletion == Completion # <<>>

HasBraceSpan(text) ==
  \E i \in 1..Len(text) : \E j \in i..Len(text) : text[i] = "{" /\ text[j] = "}"

BraceSpan(text) ==
  LET i == CHOOSE a \in 1..Len(text) :
             text[a] = "{" /\ \A b \in 1..(a - 1) : text[b] # "{"
      j == CHOOSE a \in 1..Len(text) :
             text[a] = "}" /\ \A b \in (a + 1)..Len(text) : text[b] # "}"
  IN  SubSeq(text, i, j)

\* The object the handler validates, when the reply yields one.
ParsedReply ==
  LET text == Completion
  IN  IF text = <<>> THEN [ok |-> FALSE, v |-> Undef]
      ELSE IF model # "gemini" THEN JSONparse(text)
      ELSE IF HasBraceSpan(text) THEN JSONparse(BraceSpan(text))
      ELSE [ok |-> FALSE, v |-> Undef]

\* Its emotions object: [has, o].
ParsedEmotions ==
  LET r == ParsedReply
  IN  IF r.ok /\ zHas(r.v, "emotions") /\ r.v.o[K("emotions")].t = "obj"
      THEN [has |-> TRUE, o |-> r.v.o[K("emotions")].o]
      ELSE [has |-> FALSE, o |-> <<>>]

Succeeded == Finished /\ outcome.error = NoError

FailedWith(kind) == Finished /\ outcome.error.kind = kind

FiveScoresInRange(v) ==
  /\ v.t = "obj"
  /\ K("emotions") \in DOMAIN v.o
  /\ v.o[K("emotions")].t = "obj"
  /\ \A e \in EmotionKeys :
       /\ K(e) \in DOMAIN v.o[K("emotions")].o
       /\ v.o[K("emotions")].o[K(e)] \in { Whole(n) : n \in MinScore..MaxScore }

CanonicalText == [c \in Canonicals |-> Stringify(c)]

CanonicalTexts == { CanonicalText[c] : c \in Canonicals }

Contains(text, part) ==
  /\ part # <<>>
  /\ \E i \in 1..(Len(text) - Len(part) + 1) : SubSeq(text, i, i + Len(part) - 1) = part

(***************************************************************************)
(* C1.  When the selected provider's credential is not set, the call fails *)
(* with the configuration error that names that provider, and no outbound  *)
(* call has been issued.                                                   *)
(***************************************************************************)
C1_MissingCredentialFailsFast ==
  \A p \in Providers :
    (dispatched = 1 /\ model = p /\ Credential(p) \notin env) =>
      /\ pc \in {"done", "responded"}
      /\ outcome.error = Error("ConfigurationError", Who(p), MissingKey)
      /\ calls = <<>>
      /\ response = NoResponse

W1_MissingCredential ==
  /\ dispatched = 1 /\ model = "deepseek"
  /\ env = { Credential("openai"), Credential("gemini") }
  /\ outcome.error.kind = "ConfigurationError" /\ outcome.error.who = "DeepSeek"
  /\ pc = "done"

(***************************************************************************)
(* C2.  Gemini: a completion that holds a canonical JSON object, bare or   *)
(* inside prose that has no "{" before the object and no "}" after it, is  *)
(* normalised to a result whose five scores are present and within 1..5.   *)
(* OpenAI and DeepSeek: the same for a completion that is the bare object. *)
(***************************************************************************)
FiveKeys == { K(e) : e \in EmotionKeys }

CleanPrefixes == { pre \in Prefixes : \A i \in 1..Len(pre) : pre[i] # "{" }
CleanSuffixes == { post \in Suffixes : \A i \in 1..Len(post) : post[i] # "}" }

CleanlyWrapped ==
  { pre \o CanonicalText[c] \o post :
      pre \in CleanPrefixes, post \in CleanSuffixes, c \in Canonicals }

C2_CanonicalObjectNormalizes ==
  LET text == Completion
  IN  ( /\ Finished
        /\ \/ model = "gemini" /\ text \in CleanlyWrapped
           \/ model \in {"openai", "deepseek"} /\ text \in CanonicalTexts )
      => (Succeeded /\ FiveScoresInRange(outcome.v))

W2_ProseWrappedNormalized ==
  /\ model = "gemini" /\ Succeeded
  /\ Completion \in CleanlyWrapped \ CanonicalTexts
  /\ FiveScoresInRange(outcome.v)

\* C2 as stated: every provider, bare or surrounded by any prose.
X2_AnyProviderAnyProse ==
  (Finished /\ Completion \in WrappedCompletions)
  => (Succeeded /\ FiveScoresInRange(outcome.v))

(***************************************************************************)
(* C3.  A parsed object whose emotions object lacks one of the five keys   *)
(* ends in the schema error of the selected provider, on every provider    *)
(* path.  A key outside the five is not rejected: it is dropped, and a     *)
(* returned result holds exactly the five keys.                            *)
(***************************************************************************)
C3_MissingKeyRejectedExtraKeyDropped ==
  LET emotions == ParsedEmotions
  IN  /\ (Finished /\ emotions.has /\ ~(FiveKeys \subseteq DOMAIN emotions.o))
           => outcome.error = Error("SchemaError", Who(model), <<>>)
      /\ (Succeeded /\ emotions.has /\ DOMAIN emotions.o # FiveKeys)
           => DOMAIN outcome.v.o[K("emotions")].o = FiveKeys

W3_MissingKeyRejected ==
  /\ model = "openai" /\ FailedWith("SchemaError")
  /\ ParsedEmotions.has
  /\ DOMAIN ParsedEmotions.o = FiveKeys \ {K("Surprise")}

\* C3 as stated: a missing key and an extra key are both rejected.
X3_MissingOrExtraKeyRejected ==
  LET emotions == ParsedEmotions
  IN  (Finished /\ emotions.has /\ DOMAIN emotions.o # FiveKeys)
      => outcome.error = Error("SchemaError", Who(model), <<>>)

(***************************************************************************)
(* C4.  A reply with a non-success status ends in a transport error whose  *)
(* message holds the provider's error text or the status text, whatever    *)
(* the body.                                                               *)
(***************************************************************************)
X4_ErrorStatusIsTransportError ==
  (GotReply /\ ~response.ok)
  => /\ outcome.error.kind = "TransportError"
     /\ \/ Contains(outcome.error.text, ProviderMessage)
        \/ Contains(outcome.error.text, response.statusText)

(***************************************************************************)
(* C5.  A successful reply whose envelope has no completion at the         *)
(* expected place ends in the empty-response error of the provider.        *)
(***************************************************************************)
EmptyBodies == [p \in Providers |-> { Stringify(e) : e \in EmptyEnvelopes(p) }]

X5_NoCompletionIsEmptyResponse ==
  (GotReply /\ response.ok /\ model \in Providers /\ response.body \in EmptyBodies[model])
  => outcome.error = Error("EmptyContentError", Who(model), <<>>)

(***************************************************************************)
(* C6.  A non-empty completion without a "{" ... "}" span: Gemini fails    *)
(* with the extraction error; OpenAI and DeepSeek fail with the parse      *)
(* error, or with the schema error when the text is a JSON value.          *)
(***************************************************************************)
C6_NoBraceSpan ==
  LET text == Completion
  IN  (Finished /\ text # <<>> /\ ~HasBraceSpan(text))
      => /\ model = "gemini" => outcome.error = Error("ExtractionError", "Gemini", <<>>)
         /\ model # "gemini" =>
              /\ outcome.error.kind \in {"ParseError", "SchemaError"}
              /\ outcome.error.who = Who(model)
              /\ outcome.error.kind = "SchemaError" <=> JSONparse(text).ok

W6_GeminiExtractionError ==
  /\ model = "gemini" /\ FailedWith("ExtractionError")
  /\ Completion = <<"}", "then", "{">>

\* C6 as stated: the extraction error for whichever provider.
X6_ExtractionErrorForAnyProvider ==
  LET text == Completion
  IN  (Finished /\ text # <<>> /\ ~HasBraceSpan(text))
      => outcome.error = Error("ExtractionError", Who(model), <<>>)

C8_VariantRequiredAtRequestEdge ==
  (cpc # "idle" /\ args.model = "openrouter" /\ args.openRouterModel = "")
  => /\ dispatched = 0
     /\ calls = <<>>
     /\ outcome = NoOutcome
     /\ pc \in {"idle", "responded"}
     /\ pc = "responded" => apiResponse = ErrorResponse(InvalidRequest)

W8_RejectedAtRequestEdge ==
  /\ args.model = "openrouter" /\ args.openRouterModel = ""
  /\ cpc = "threw" /\ clientResult.error.text = InvalidRequest
  /\ dispatched = 0

(***************************************************************************)
(* C9.  A completion that is exactly the JSON text of a canonical object   *)
(* comes back as that object: same claim, same premises in the same order, *)
(* same five scores, no key more and no key less.                          *)
(***************************************************************************)
C9_CanonicalReturnedUnchanged ==
  LET text == Completion
  IN  \A c \in Canonicals :
        (Finished /\ text = CanonicalText[c]) => outcome = Returned(c)

SkyExample ==
  Obj(Fields(Str(<<"The", "ocean", "is", "blue">>), PremisesOf(1),
             Obj(Scores(Whole(1), Whole(1), Whole(2), Whole(1), Whole(1)))))

W9_ExampleReturned ==
  /\ model = "openai" /\ pc = "done"
  /\ Completion = Stringify(SkyExample)
  /\ outcome = Returned(SkyExample)

(***************************************************************************)
(* C10.  A parsed reply in which one of the five scores is 0, 6 or not a   *)
(* number ends in the schema error of the selected provider, whatever the  *)
(* other four scores are.                                                  *)
(***************************************************************************)
BadScore(v) == v.t # "num" \/ v \in {Whole(0), Whole(6)}

C10_BadScoreRejected ==
  LET emotions == ParsedEmotions
  IN  ( /\ Finished /\ emotions.has
        /\ \E e \in FiveKeys : e \in DOMAIN emotions.o /\ BadScore(emotions.o[e]) )
      => outcome.error = Error("SchemaError", Who(model), <<>>)

W10_ZeroAmongValidScores ==
  LET emotions == ParsedEmotions
  IN  /\ model = "gemini" /\ FailedWith("SchemaError") /\ emotions.has
      /\ DOMAIN emotions.o = FiveKeys
      /\ emotions.o[K("Joy")] = Whole(0)
      /\ \A e \in FiveKeys \ {K("Joy")} : zScore(emotions.o[e])

(***************************************************************************)
(* C11.  Every returned result is canonical: claim is a string, premises   *)
(* is a sequence of strings, emotions has exactly the five keys, and every *)
(* score is an integer in 1..5.                                            *)
(***************************************************************************)
CanonicalShape(v) ==
  /\ v.t = "obj"
  /\ DOMAIN v.o = { K("claim"), K("premises"), K("emotions") }
  /\ v.o[K("claim")].t = "str"
  /\ v.o[K("premises")].t = "arr"
  /\ \A i \in 1..Len(v.o[K("premises")].a) : v.o[K("premises")].a[i].t = "str"
  /\ v.o[K("emotions")].t = "obj"
  /\ DOMAIN v.o[K("emotions")].o = FiveKeys

IntegerScores(v) ==
  \A e \in FiveKeys :
    v.o[K("emotions")].o[e] \in { Whole(n) : n \in MinScore..MaxScore }

X11_ReturnedResultIsCanonical ==
  Succeeded => (CanonicalShape(outcome.v) /\ IntegerScores(outcome.v))

(***************************************************************************)
(* C12.  The stages of a call are entered in the order Idle, Dispatched,   *)
(* AwaitingHTTP, ContentExtracted, JSONIsolated, Parsed, Validated, Failed *)
(* with none entered twice and none after Failed; JSONIsolated is entered  *)
(* on the Gemini path only; a finished call has ended in Validated exactly *)
(* when it returned a result and in Failed otherwise, never in both.       *)
(***************************************************************************)
StageOrder ==
  << "Idle", "Dispatched", "AwaitingHTTP", "ContentExtracted", "JSONIsolated",
     "Parsed", "Validated", "Failed" >>

Rank(stage) == CHOOSE i \in 1..Len(StageOrder) : StageOrder[i] = stage

Entered(stage) == \E i \in 1..Len(trace) : trace[i] = stage

LastStage == trace[Len(trace)]

C12_StagesInOrder ==
  /\ trace[1] = "Idle"
  /\ \A i \in 1..(Len(trace) - 1) : Rank(trace[i]) < Rank(trace[i + 1])
  /\ ~(Entered("Validated") /\ Entered("Failed"))
  /\ Entered("JSONIsolated") => model = "gemini"
  /\ (Entered("Parsed") /\ model = "gemini") => Entered("JSONIsolated")
  /\ Finished => /\ LastStage \in {"Validated", "Failed"}
                 /\ (LastStage = "Validated") <=> (outcome.error = NoError)
  /\ ~Finished => LastStage \in {"Idle", "AwaitingHTTP"}

\* A Gemini call that enters every stage up to Parsed and fails validation.
W12_FailedAfterParsed ==
  /\ Finished /\ model = "gemini"
  /\ trace = << "Idle", "Dispatched", "AwaitingHTTP", "ContentExtracted",
                "JSONIsolated", "Parsed", "Failed" >>

\* C12 as stated: every stage but Failed is entered from the stage that
\* precedes it in the list, so that no call enters Parsed without having
\* entered JSONIsolated.
X12_EveryStageFromItsPredecessor ==
  \A i \in 1..(Len(trace) - 1) :
    trace[i + 1] # "Failed" => Rank(trace[i + 1]) = Rank(trace[i]) + 1

(***************************************************************************)
(* C13.  The client's history holds one item when analyzeArgument has      *)
(* returned a result and none at any other moment: none while the call is  *)
(* under way, none when the request or the reading of the response failed. *)
(* The item carries the call's text, the returned result and the label     *)
(* "openrouter-<variant>" when the model is "openrouter" and a variant was *)
(* given, the model's name otherwise.                                      *)
(***************************************************************************)
ProviderLabel ==
  IF args.model = "openrouter" /\ args.openRouterModel # ""
  THEN <<"openrouter", "-", args.openRouterModel>>
  ELSE <<args.model>>

C13_HistoryWrittenOncePerResult ==
  /\ Len(history) = IF cpc = "returned" THEN 1 ELSE 0
  /\ cpc = "returned" =>
       /\ received.ok /\ JSONparse(received.body).ok
       /\ clientResult = Returned(JSONparse(received.body).v)
       /\ history[1] = [text |-> args.text, result |-> clientResult.v,
                        model |-> ProviderLabel]
  /\ cpc = "threw" => clientResult.error.kind \in {"RequestError", "ParseError"}

W13_VariantLabelSaved ==
  /\ cpc = "returned"
  /\ args.model = "openrouter"
  /\ history[1].model = <<"openrouter", "-", "mistral-7b">>
====
